---- MODULE Spec2Model ----
(***************************************************************************)
(* Model of the Canvas API documentation scraper: the crawl loop of        *)
(* main.py (crawl_canvas_api), the two endpoint extractors                 *)
(* (utils/canvas_scraper.py and utils/scraper_utils.py) and the tabular    *)
(* writer of utils/data_utils.py.                                          *)
(*                                                                         *)
(* Text is modelled as a sequence of one-character strings, so that the    *)
(* string operations of the code (strip, find, split, replace, slicing,    *)
(* regular expressions) are computed character by character.               *)
(***************************************************************************)
EXTENDS Integers, Sequences, FiniteSets, TLC

VARIABLES
    pc,                 \* position of crawl_canvas_api
    ri,                 \* 1-based index of the for loop over RESOURCE_LINKS
    result,             \* value returned by crawler.arun for the current resource
    endpoints,          \* batch returned by parse_canvas_api_page
    ei,                 \* 1-based index of the for loop over endpoints
    all_endpoints,      \* accumulated records (main.py:37)
    seen_endpoint_ids,  \* identity keys already accepted (main.py:38)
    requested,          \* urls handed to crawler.arun, in call order
    batches,            \* every batch parse_canvas_api_page returned, in order
    debug_files,        \* names of the debug html files written
    csv_writes,         \* one entry (the rows) per call of save_endpoints_to_csv that writes
    json_writes,        \* one entry (the records) per json.dump
    printed,            \* the closing message of the run
    failed,             \* the resources whose fetch error was printed, in order
    fn_in,              \* input of the function under check
    fn_pc,              \* position of the function harness
    fn_out              \* value the function returned

vars == <<pc, ri, result, endpoints, ei, all_endpoints, seen_endpoint_ids,
          requested, batches, debug_files, csv_writes, json_writes, printed, failed,
          fn_in, fn_pc, fn_out>>

crawlVars == <<pc, ri, result, endpoints, ei, all_endpoints, seen_endpoint_ids,
               requested, batches, debug_files, csv_writes, json_writes, printed, failed>>

fnVars == <<fn_in, fn_pc, fn_out>>

-----------------------------------------------------------------------------
(* Python str operations, on sequences of characters.                      *)

Min(a, b) == IF a <= b THEN a ELSE b

Max(a, b) == IF a >= b THEN a ELSE b

\* str.isspace for one character: the whitespace str.strip and \s know
IsSpace(c) == c \in {" ", "\n", "\t", "\r"}

LowerLetters ==
    <<"a","b","c","d","e","f","g","h","i","j","k","l","m",
      "n","o","p","q","r","s","t","u","v","w","x","y","z">>

UpperLetters ==
    <<"A","B","C","D","E","F","G","H","I","J","K","L","M",
      "N","O","P","Q","R","S","T","U","V","W","X","Y","Z">>

Digits == {"0","1","2","3","4","5","6","7","8","9"}

Range(s) == {s[i] : i \in DOMAIN s}

ToUpper(c) ==
    IF \E i \in DOMAIN LowerLetters : LowerLetters[i] = c
    THEN UpperLetters[CHOOSE i \in DOMAIN LowerLetters : LowerLetters[i] = c]
    ELSE c

ToLower(c) ==
    IF \E i \in DOMAIN UpperLetters : UpperLetters[i] = c
    THEN LowerLetters[CHOOSE i \in DOMAIN UpperLetters : UpperLetters[i] = c]
    ELSE c

\* str.lower
Lower(s) == [i \in 1..Len(s) |-> ToLower(s[i])]

\* str.capitalize: first character upper case, the rest lower case
Capitalize(s) == [i \in 1..Len(s) |-> IF i = 1 THEN ToUpper(s[i]) ELSE ToLower(s[i])]

\* t occurs in s at the 1-based position i
StartsAt(s, t, i) ==
    /\ i >= 1
    /\ i + Len(t) - 1 <= Len(s)
    /\ SubSeq(s, i, i + Len(t) - 1) = t

\* str.find: 0-based index of the first occurrence at or after 0-based `from`, or -1
FindFrom(s, t, from) ==
    LET hits == {i \in (from + 1)..(Len(s) + 1) : StartsAt(s, t, i)}
    IN  IF hits = {} THEN -1
        ELSE (CHOOSE i \in hits : \A j \in hits : i <= j) - 1

Find(s, t) == FindFrom(s, t, 0)

\* the `in` operator on str
Contains(s, t) == Find(s, t) # -1

\* s[:n] for n >= 0
Prefix(s, n) == SubSeq(s, 1, Min(n, Len(s)))

\* s[n:] for n >= 0
Suffix(s, n) == SubSeq(s, n + 1, Len(s))

\* str.strip
Strip(s) ==
    LET keep == {i \in 1..Len(s) : ~IsSpace(s[i])}
    IN  IF keep = {} THEN <<>>
        ELSE SubSeq(s, CHOOSE i \in keep : \A j \in keep : i <= j,
                       CHOOSE i \in keep : \A j \in keep : i >= j)

\* str.split(sep) for a non-empty separator
RECURSIVE Split(_, _)
Split(s, sep) ==
    LET at == Find(s, sep)
    IN  IF at = -1 THEN <<s>>
        ELSE <<Prefix(s, at)>> \o Split(Suffix(s, at + Len(sep)), sep)

\* str.replace(old, new) for a non-empty old: every non-overlapping occurrence
RECURSIVE Replace(_, _, _)
Replace(s, old, new) ==
    LET at == Find(s, old)
    IN  IF at = -1 THEN s
        ELSE Prefix(s, at) \o new \o Replace(Suffix(s, at + Len(old)), old, new)

\* the concatenation of a sequence of texts
RECURSIVE Concat(_)
Concat(ts) == IF ts = <<>> THEN <<>> ELSE Head(ts) \o Concat(Tail(ts))

\* a text of n copies of the character c
Repeat(c, n) == [i \in 1..n |-> c]

\* truthiness of a str or list
Truthy(v) == v # <<>>

-----------------------------------------------------------------------------
(* Text constants of the program.                                          *)

GET == <<"G","E","T">>

POST == <<"P","O","S","T">>

PUT == <<"P","U","T">>

DELETE == <<"D","E","L","E","T","E">>

PATCH == <<"P","A","T","C","H">>

\* the verbs of the pattern of canvas_scraper.py, in the order of the alternation
CanvasVerbs == <<GET, POST, PUT, DELETE>>

\* the verbs of the patterns of scraper_utils.py, in the order of the alternation
MethodVerbs == <<GET, POST, PUT, DELETE, PATCH>>

Ellipsis == <<".",".",".">>

DotHtml == <<".","h","t","m","l">>

BASE_URL ==
    <<"h","t","t","p","s",":","/","/","c","a","n","v","a","s",".","i","n","s","t","r",
      "u","c","t","u","r","e",".","c","o","m","/","d","o","c","/","a","p","i","/">>

RESOURCE_LINKS ==
    << <<"u","s","e","r","s",".","h","t","m","l">>,
       <<"c","o","u","r","s","e","s",".","h","t","m","l">>,
       <<"a","c","c","o","u","n","t","s",".","h","t","m","l">>,
       <<"e","n","r","o","l","l","m","e","n","t","s",".","h","t","m","l">>,
       <<"a","s","s","i","g","n","m","e","n","t","s",".","h","t","m","l">>,
       <<"s","u","b","m","i","s","s","i","o","n","s",".","h","t","m","l">>,
       <<"f","i","l","e","s",".","h","t","m","l">>,
       <<"g","r","o","u","p","s",".","h","t","m","l">>,
       <<"d","i","s","c","u","s","s","i","o","n","_","t","o","p","i","c","s",".","h","t","m","l">>,
       <<"m","o","d","u","l","e","s",".","h","t","m","l">>,
       <<"p","a","g","e","s",".","h","t","m","l">>,
       <<"q","u","i","z","z","e","s",".","h","t","m","l">> >>

REQUIRED_KEYS == <<"resource", "name", "http_method", "path", "description">>

\* the resources whose html is dumped for debugging (main.py:65)
DebugResources ==
    { <<"u","s","e","r","s">>, <<"c","o","u","r","s","e","s">>,
      <<"a","c","c","o","u","n","t","s">> }

DebugPrefix == <<"r","e","s","u","l","t","s","/","d","e","b","u","g","_">>

ExampleRequest == <<"E","x","a","m","p","l","e"," ","R","e","q","u","e","s","t">>

ExampleResponse == <<"E","x","a","m","p","l","e"," ","R","e","s","p","o","n","s","e">>

-----------------------------------------------------------------------------
(* The regular expressions of the two extractors.  A match is the pair     *)
(* <<method, path>> of its two groups; no match is the empty sequence.     *)

NoMatch == <<>>

\* \S
NonSpace(c) == ~IsSpace(c)

\* [\/\w\.\-]
IsPathChar(c) ==
    \/ c \in Range(LowerLetters) \cup Range(UpperLetters) \cup Digits
    \/ c \in {"_", "/", ".", "-"}

\* index of the first character at or after k that is not whitespace (Len+1 if none)
SkipSpaces(s, k) ==
    LET rest == {i \in k..Len(s) : ~IsSpace(s[i])}
    IN  IF rest = {} THEN Len(s) + 1 ELSE CHOOSE i \in rest : \A j \in rest : i <= j

\* index of the last character of the longest run of C-characters that starts at k
RunEnd(s, k, C(_)) ==
    CHOOSE e \in (k - 1)..Len(s) :
        /\ \A i \in k..e : C(s[i])
        /\ e = Len(s) \/ ~C(s[e + 1])

\* (verb1|verb2|...)\s+(/[^\s]+) tried at position i
StrictAt(s, i, verbs) ==
    LET vs == {n \in DOMAIN verbs : StartsAt(s, verbs[n], i)}
    IN  IF vs = {} THEN NoMatch
        ELSE LET v == verbs[CHOOSE n \in vs : \A m \in vs : n <= m]
                 j == i + Len(v)
                 k == SkipSpaces(s, j)
             IN  IF k > j /\ k + 1 <= Len(s) /\ s[k] = "/" /\ NonSpace(s[k + 1])
                 THEN <<v, SubSeq(s, k, RunEnd(s, k, NonSpace))>>
                 ELSE NoMatch

\* (verb1|verb2|...)\s+([\/\w\.\-]+) tried at position i
LooseAt(s, i, verbs) ==
    LET vs == {n \in DOMAIN verbs : StartsAt(s, verbs[n], i)}
    IN  IF vs = {} THEN NoMatch
        ELSE LET v == verbs[CHOOSE n \in vs : \A m \in vs : n <= m]
                 j == i + Len(v)
                 k == SkipSpaces(s, j)
             IN  IF k > j /\ k <= Len(s) /\ IsPathChar(s[k])
                 THEN <<v, SubSeq(s, k, RunEnd(s, k, IsPathChar))>>
                 ELSE NoMatch

\* re.match(r"(GET|POST|PUT|DELETE)\s+(/[^\s]+)", s): anchored at the start
MatchCanvas(s) == StrictAt(s, 1, CanvasVerbs)

\* re.search(r"(GET|POST|PUT|DELETE|PATCH)\s+(/[^\s]+)", s): leftmost match
SearchStrict(s) ==
    LET hits == {i \in 1..Len(s) : StrictAt(s, i, MethodVerbs) # NoMatch}
    IN  IF hits = {} THEN NoMatch
        ELSE StrictAt(s, CHOOSE i \in hits : \A j \in hits : i <= j, MethodVerbs)

\* re.search(r"(GET|POST|PUT|DELETE|PATCH)\s+([\/\w\.\-]+)", s): leftmost match
SearchLoose(s) ==
    LET hits == {i \in 1..Len(s) : LooseAt(s, i, MethodVerbs) # NoMatch}
    IN  IF hits = {} THEN NoMatch
        ELSE LooseAt(s, CHOOSE i \in hits : \A j \in hits : i <= j, MethodVerbs)

-----------------------------------------------------------------------------
(* A page as canvas_scraper.py reads it: its elements in document order.   *)
(* Every element is a record of one shape:                                 *)
(*   tag      the tag name                                                *)
(*   sel      for an h2, whether the selector "div > div > h2" matches it *)
(*   text     the text of the element                                     *)
(*   anchors  for an h2, the texts of the <a> tags inside it, in order    *)
(*   rows     for a table, its <tr> rows, each the texts of its <td>s     *)

Elem(tag, sel, text, anchors, rows) ==
    [tag |-> tag, sel |-> sel, text |-> text, anchors |-> anchors, rows |-> rows]

H2(anchors) == Elem("h2", TRUE, <<>>, anchors, <<>>)

H2Other(anchors) == Elem("h2", FALSE, <<>>, anchors, <<>>)

H3(text) == Elem("h3", FALSE, text, <<>>, <<>>)

P(text) == Elem("p", FALSE, text, <<>>, <<>>)

H4(text) == Elem("h4", FALSE, text, <<>>, <<>>)

Pre(text) == Elem("pre", FALSE, text, <<>>, <<>>)

Table(rows) == Elem("table", FALSE, <<>>, <<>>, rows)

\* Tag.get_text(strip=True) of an element holding one text node
GetText(text) == Strip(text)

\* element.find_next(tag): the position of the first later element with that tag, or 0
FindNext(page, i, tag) ==
    LET later == {j \in (i + 1)..Len(page) : page[j].tag = tag}
    IN  IF later = {} THEN 0 ELSE CHOOSE j \in later : \A k \in later : j <= k

\* element.find_next(lambda tag: tag.name == "h4" and marker in tag.text)
FindNextH4(page, i, marker) ==
    LET later == {j \in (i + 1)..Len(page) :
                      page[j].tag = "h4" /\ Contains(page[j].text, marker)}
    IN  IF later = {} THEN 0 ELSE CHOOSE j \in later : \A k \in later : j <= k

\* the parameter of one row: its first three cells, if it has that many
ParamOfRow(cells) ==
    IF Len(cells) >= 3
    THEN << [name |-> GetText(cells[1]), type |-> GetText(cells[2]),
             description |-> GetText(cells[3])] >>
    ELSE <<>>

\* Faulty variant of TableParameters: a row needs more than three cells
TableParameters_FourCells(rows) ==
    LET param_rows == IF rows = <<>> THEN <<>> ELSE Tail(rows)
    IN  Concat([k \in 1..Len(param_rows) |->
                   IF Len(param_rows[k]) > 3 THEN ParamOfRow(param_rows[k]) ELSE <<>>])

\* the parameters read from a table: every row but the first (canvas_scraper.py:79-88)
TableParameters(rows) ==
    LET param_rows == IF rows = <<>> THEN <<>> ELSE Tail(rows)
    IN  Concat([k \in 1..Len(param_rows) |-> ParamOfRow(param_rows[k])])

\* the text of the <pre> that follows the h4 at position h (0: no such h4)
ExampleAfter(page, h) ==
    IF h = 0 THEN <<>>
    ELSE LET c == FindNext(page, h, "pre")
         IN  IF c = 0 THEN <<>> ELSE GetText(page[c].text)

\* extract_endpoint_from_section for the h2 at position i: <<record>>, or <<>> for None
extract_endpoint_from_section(page, i, resource_name) ==
    LET name == IF page[i].anchors = <<>> THEN <<>> ELSE GetText(page[i].anchors[1])
        h3 == FindNext(page, i, "h3")
    IN  IF ~Truthy(name) THEN <<>>
        ELSE IF h3 = 0 THEN <<>>
        ELSE LET method_match == MatchCanvas(GetText(page[h3].text))
             IN  IF method_match = NoMatch THEN <<>>
                 ELSE LET p_tag == FindNext(page, h3, "p")
                          params_table == FindNext(page, i, "table")
                      IN  << [resource |-> resource_name,
                              name |-> name,
                              http_method |-> method_match[1],
                              path |-> method_match[2],
                              description |->
                                  IF p_tag = 0 THEN <<>> ELSE GetText(page[p_tag].text),
                              parameters |->
                                  IF params_table = 0 THEN <<>>
                                  ELSE TableParameters(page[params_table].rows),
                              example_request |->
                                  ExampleAfter(page, FindNextH4(page, i, ExampleRequest)),
                              example_response |->
                                  ExampleAfter(page, FindNextH4(page, i, ExampleResponse))] >>

\* the loop of parse_canvas_api_page over the sections from position i on
RECURSIVE ParseFrom(_, _, _)
ParseFrom(page, i, resource_name) ==
    IF i > Len(page) THEN <<>>
    ELSE (IF page[i].tag = "h2" /\ page[i].sel
          THEN extract_endpoint_from_section(page, i, resource_name)
          ELSE <<>>) \o ParseFrom(page, i + 1, resource_name)

parse_canvas_api_page(html_content, resource_name) ==
    ParseFrom(html_content, 1, resource_name)

-----------------------------------------------------------------------------
(* utils/data_utils.py                                                     *)

ScopeMarker == <<"S","c","o","p","e",":">>

CodeOpen == <<"<","c","o","d","e",">">>

CodeClose == <<"<","/","c","o","d","e",">">>

\* the length over which the tabular writer cuts a description
CsvDescriptionCap == 200

\* dict.get(key, default)
Get(d, key, default) == IF key \in DOMAIN d THEN d[key] ELSE default

\* re.search(r"<code>(.*?)</code>", s): <<group 1>> of the leftmost match, or NoMatch.
\* `.` matches no newline, and the lazy star stops at the nearest closing tag.
SearchCode(s) ==
    LET closeAfter(i) == FindFrom(s, CodeClose, i - 1 + Len(CodeOpen))
        matches(i) ==
            /\ StartsAt(s, CodeOpen, i)
            /\ closeAfter(i) # -1
            /\ \A k \in (i + Len(CodeOpen))..closeAfter(i) : s[k] # "\n"
        hits == {i \in 1..Len(s) : matches(i)}
    IN  IF hits = {} THEN NoMatch
        ELSE LET i == CHOOSE h \in hits : \A j \in hits : h <= j
             IN  << SubSeq(s, i + Len(CodeOpen), closeAfter(i)) >>

extract_scope(endpoint) ==
    LET description == Get(endpoint, "description", <<>>)
    IN  IF ~Contains(description, ScopeMarker) THEN <<>>
        ELSE LET scope_parts == Split(description, ScopeMarker)
             IN  IF ~(Len(scope_parts) > 1) THEN <<>>
                 ELSE LET code_match == SearchCode(scope_parts[2])
                          dot_pos == Find(scope_parts[2], <<".">>)
                          end_pos == IF dot_pos = -1
                                     THEN Find(scope_parts[2], <<"\n">>)
                                     ELSE dot_pos
                      IN  IF code_match # NoMatch THEN code_match[1]
                          ELSE IF end_pos = -1 THEN Strip(scope_parts[2])
                          ELSE Strip(Prefix(scope_parts[2], end_pos))

\* the description column of the tabular output (data_utils.py:41-43)
CsvDescription(endpoint) ==
    LET d == Get(endpoint, "description", <<>>)
    IN  IF Len(d) > CsvDescriptionCap
        THEN Prefix(d, CsvDescriptionCap) \o Ellipsis
        ELSE d

\* one row of the tabular output
CsvRow(endpoint) ==
    [resource |-> endpoint["resource"],
     name |-> endpoint["name"],
     http_method |-> endpoint["http_method"],
     path |-> endpoint["path"],
     description |-> CsvDescription(endpoint),
     scope |-> extract_scope(endpoint),
     parameter_count |-> Len(Get(endpoint, "parameters", <<>>))]

\* the rows save_endpoints_to_csv writes after the header, one per endpoint
save_endpoints_to_csv(eps) == [i \in 1..Len(eps) |-> CsvRow(eps[i])]

-----------------------------------------------------------------------------
(* utils/scraper_utils.py                                                  *)
(* A heading that extract_api_endpoints considers is a record:             *)
(*   cls       the h2 carries the class api_method_name                    *)
(*   content   the h2 lies inside div#content                              *)
(*   text      the text of the h2                                          *)
(*   title     its title attribute (empty: none)                           *)
(*   before    the text of its parent that precedes it                     *)
(*   siblings  the nodes after it under the same parent, each with the tag *)
(*             name ("" for a text node) and its text                      *)

\* Python's None
None == "None"

\* number of following siblings parse_api_method looks at
SiblingScan == 10

\* a paragraph counts as a description when it is longer than this
SubstantialText == 10

\* the length over which parse_api_method cuts a description
DescriptionCap == 500

GenericPrefix ==
    <<"A","P","I"," ","e","n","d","p","o","i","n","t"," ","f","o","r"," ">>

EndpointSuffix == <<" ","e","n","d","p","o","i","n","t">>

\* the first of the first SiblingScan siblings that is a p or div with substantial text
SiblingDescription(siblings) ==
    LET ok == {k \in 1..Min(SiblingScan, Len(siblings)) :
                  /\ siblings[k].name \in {"p", "div"}
                  /\ Truthy(GetText(siblings[k].text))
                  /\ Len(GetText(siblings[k].text)) > SubstantialText}
    IN  IF ok = {} THEN <<>>
        ELSE GetText(siblings[CHOOSE k \in ok : \A j \in ok : k <= j].text)

\* method_element.parent.get_text(strip=True): the stripped texts, joined
ParentText(m) ==
    GetText(m.before) \o GetText(m.text)
        \o Concat([k \in 1..Len(m.siblings) |-> GetText(m.siblings[k].text)])

\* Faulty variant of MethodDescription: the generic description is missing
MethodDescription_NoGeneric(m, path) ==
    LET method_text == GetText(m.text)
        found == SiblingDescription(m.siblings)
        d1 == IF found = <<>> /\ Truthy(m.title) THEN m.title ELSE found
        parent_text == ParentText(m)
    IN  IF ~Truthy(d1) /\ Truthy(parent_text) /\ parent_text # method_text
        THEN Strip(Replace(parent_text, method_text, <<>>))
        ELSE d1

\* the description after the fallbacks of scraper_utils.py:199-231
MethodDescription(m, path) ==
    LET method_text == GetText(m.text)
        found == SiblingDescription(m.siblings)
        description_found == found # <<>>
        d1 == IF ~description_found /\ Truthy(m.title) THEN m.title ELSE found
        parent_text == ParentText(m)
        d2 == IF ~Truthy(d1) /\ Truthy(parent_text) /\ parent_text # method_text
              THEN Strip(Replace(parent_text, method_text, <<>>))
              ELSE d1
    IN  IF ~Truthy(d2) THEN GenericPrefix \o path ELSE d2

\* Faulty variant of LimitDescription: a description of exactly the cap is cut too
LimitDescription_CutsAtCap(description) ==
    IF Len(description) >= DescriptionCap
    THEN Prefix(description, DescriptionCap) \o Ellipsis
    ELSE description

\* description[:500] + "..." if len(description) > 500 else description
LimitDescription(description) ==
    IF Len(description) > DescriptionCap
    THEN Prefix(description, DescriptionCap) \o Ellipsis
    ELSE description

\* the name derived from the path (scraper_utils.py:236-240)
MethodName(http_method, path, resource_name) ==
    LET name_parts == Split(path, <<"/">>)
        name == IF Truthy(name_parts) /\ Truthy(name_parts[Len(name_parts)])
                THEN name_parts[Len(name_parts)]
                ELSE path
    IN  IF ~Truthy(name) \/ name = <<"/">>
        THEN http_method \o <<" ">> \o resource_name \o EndpointSuffix
        ELSE name

\* the two patterns of parse_api_method, the strict one first
MethodMatch(method_text) ==
    IF SearchStrict(method_text) # NoMatch
    THEN SearchStrict(method_text)
    ELSE SearchLoose(method_text)

\* parse_api_method: <<record>>, or <<>> for None
parse_api_method(m, resource_name) ==
    LET method_text == GetText(m.text)
        match == MethodMatch(method_text)
    IN  IF match = NoMatch THEN <<>>
        ELSE << [resource |-> resource_name,
                 name |-> MethodName(match[1], match[2], resource_name),
                 http_method |-> match[1],
                 path |-> match[2],
                 description |-> LimitDescription(MethodDescription(m, match[2])),
                 parameters |-> <<>>,
                 example |-> None] >>

\* the headings extract_api_endpoints hands to parse_api_method
ApiMethods(headings) ==
    LET byClass == SelectSeq(headings, LAMBDA m : m.cls)
        general == SelectSeq(headings, LAMBDA m : m.content)
    IN  IF byClass # <<>> THEN byClass
        ELSE SelectSeq(general, LAMBDA m : SearchStrict(GetText(m.text)) # NoMatch)

\* extract_api_endpoints on the result of the fetch
extract_api_endpoints(res, resource_name) ==
    IF ~res.success THEN <<>>
    ELSE LET api_methods == ApiMethods(res.cleaned_html)
         IN  Concat([k \in 1..Len(api_methods) |->
                        parse_api_method(api_methods[k], resource_name)])

-----------------------------------------------------------------------------
(* The pages the fetcher may return.                                       *)

SeqsUpTo(S, n) == UNION {[1..k -> S] : k \in 0..n}

UsersPath == <<"/","a","p","i","/","v","1","/","u","s","e","r","s">>

FooPath == <<"/","f","o","o">>

ListUsers == <<"L","i","s","t"," ","u","s","e","r","s">>

ListsUsers == <<"L","i","s","t","s"," ","u","s","e","r","s",".">>

\* a section heading with its anchor
NamedH2 == H2(<<ListUsers>>)

GetUsers == H3(GET \o <<" ">> \o UsersPath)

PostUsers == H3(POST \o <<" ">> \o UsersPath)

PatchUsers == H3(PATCH \o <<" ">> \o UsersPath)

FetchFoo == H3(<<"F","E","T","C","H">> \o <<" ">> \o FooPath)

\* a parameter table: a header row of <th> cells, two rows of three <td> cells
\* and a row of two
ParamTable ==
    Table(<< <<>>,
             << <<"i","d">>, <<"i","n","t">>, <<"T","h","e"," ","i","d">> >>,
             << <<"q">>, <<"s","t","r">>, <<"A"," ","q","u","e","r","y">> >>,
             << <<"x">>, <<"y">> >> >>)

\* the table of the end-to-end scenario: a header row and two rows of three cells
TwoRowTable ==
    Table(<< <<>>,
             << <<"i","d">>, <<"i","n","t">>, <<"T","h","e"," ","i","d">> >>,
             << <<"q">>, <<"s","t","r">>, <<"A"," ","q","u","e","r","y">> >> >>)

\* one GET heading, its paragraph and its parameter table
ScenarioPage == <<NamedH2, GetUsers, P(ListsUsers), TwoRowTable>>

\* the same endpoint documented twice
TwicePage == <<NamedH2, GetUsers, P(ListsUsers), NamedH2, GetUsers, P(ListsUsers)>>

\* the same endpoint, first with an empty paragraph and then with a description
EmptyThenFullPage == <<NamedH2, GetUsers, P(<<>>), NamedH2, GetUsers, P(ListsUsers)>>

\* two endpoints, the second without any paragraph after it
TwoMethodsPage == <<NamedH2, GetUsers, P(ListsUsers), NamedH2, PostUsers>>

\* a described endpoint followed by one whose paragraph is empty
FullThenEmptyPage == <<NamedH2, PostUsers, P(ListsUsers), NamedH2, GetUsers, P(<<" ">>)>>

\* a heading without anchor text, and a heading whose h3 names no known verb
NoCandidatePage == <<H2(<<>>), GetUsers, P(ListsUsers), NamedH2, FetchFoo>>

\* the pages the crawl of the model may be served
CrawlPages ==
    {ScenarioPage, TwicePage, EmptyThenFullPage, TwoMethodsPage,
     FullThenEmptyPage, NoCandidatePage}

-----------------------------------------------------------------------------
(* main.py: crawl_canvas_api                                               *)

\* how many of the RESOURCE_LINKS, from the first on, the model walks
NumResources == 4

Links == SubSeq(RESOURCE_LINKS, 1, Min(NumResources, Len(RESOURCE_LINKS)))

\* resource_link.replace(".html", "").capitalize()
ResourceName(resource_link) == Capitalize(Replace(resource_link, DotHtml, <<>>))

\* BASE_URL + resource_link
ResourceUrl(resource_link) == BASE_URL \o resource_link

\* f"{endpoint['resource']}_{endpoint['http_method']}_{endpoint['path']}"
endpoint_id(endpoint) ==
    endpoint["resource"] \o <<"_">> \o endpoint["http_method"] \o <<"_">> \o endpoint["path"]

\* Faulty variant of HasRequiredKeys: the description is not among the keys tested
HasRequiredKeys_NoDescription(endpoint) ==
    \A k \in 1..4 :
        REQUIRED_KEYS[k] \in DOMAIN endpoint /\ Truthy(endpoint[REQUIRED_KEYS[k]])

\* all(key in endpoint and endpoint[key] for key in REQUIRED_KEYS)
HasRequiredKeys(endpoint) ==
    \A k \in DOMAIN REQUIRED_KEYS :
        REQUIRED_KEYS[k] \in DOMAIN endpoint /\ Truthy(endpoint[REQUIRED_KEYS[k]])

\* Faulty variant of AggregateOne: the test against the seen-set is missing
AggregateOne_NoSeenTest(acc, endpoint) ==
    IF ~HasRequiredKeys(endpoint) THEN acc
    ELSE [all |-> Append(acc.all, endpoint),
          seen |-> acc.seen \cup {endpoint_id(endpoint)}]

\* Faulty variant of AggregateOne: an accepted key is never added to the seen-set
AggregateOne_KeyNotRecorded(acc, endpoint) ==
    IF endpoint_id(endpoint) \in acc.seen THEN acc
    ELSE IF ~HasRequiredKeys(endpoint) THEN acc
    ELSE [all |-> Append(acc.all, endpoint), seen |-> acc.seen]

\* Faulty variant of AggregateOne: an accepted record is put first, not last
AggregateOne_Prepends(acc, endpoint) ==
    IF endpoint_id(endpoint) \in acc.seen THEN acc
    ELSE IF ~HasRequiredKeys(endpoint) THEN acc
    ELSE [all |-> <<endpoint>> \o acc.all,
          seen |-> acc.seen \cup {endpoint_id(endpoint)}]

\* Faulty variant of AggregateOne: the key is added to the seen-set before the
\* required keys are tested
AggregateOne_SeenBeforeGate(acc, endpoint) ==
    IF endpoint_id(endpoint) \in acc.seen THEN acc
    ELSE IF ~HasRequiredKeys(endpoint)
         THEN [all |-> acc.all, seen |-> acc.seen \cup {endpoint_id(endpoint)}]
    ELSE [all |-> Append(acc.all, endpoint),
          seen |-> acc.seen \cup {endpoint_id(endpoint)}]

\* the body of the loop of main.py:78-92 for one endpoint, on the pair
\* [all |-> all_endpoints, seen |-> seen_endpoint_ids]
AggregateOne(acc, endpoint) ==
    IF endpoint_id(endpoint) \in acc.seen THEN acc
    ELSE IF ~HasRequiredKeys(endpoint) THEN acc
    ELSE [all |-> Append(acc.all, endpoint),
          seen |-> acc.seen \cup {endpoint_id(endpoint)}]

\* the whole loop of main.py:78-92 over a batch
RECURSIVE AggregateBatch(_, _)
AggregateBatch(acc, batch) ==
    IF batch = <<>> THEN acc
    ELSE AggregateBatch(AggregateOne(acc, Head(batch)), Tail(batch))

\* the file the html of a resource is dumped to, if it is (main.py:65-72)
DebugFiles(resource_name) ==
    IF Lower(resource_name) \in DebugResources
    THEN {DebugPrefix \o Lower(resource_name) \o DotHtml}
    ELSE {}

\* Faulty variant of AfterResource: the results are saved after the first resource
AfterResource_SavesEarly(i) == "save"

\* where the for loop over RESOURCE_LINKS goes after resource i
AfterResource(i) == IF i + 1 > Len(Links) THEN "save" ELSE "fetch"

FnIdle ==
    /\ fn_in = [kind |-> "none", success |-> FALSE, html |-> <<>>, resource_name |-> <<>>]
    /\ fn_pc = "idle"
    /\ fn_out = [endpoints |-> <<>>, csv |-> <<>>, scope |-> <<>>]

CrawlInit ==
    /\ pc = IF Len(Links) = 0 THEN "save" ELSE "fetch"
    /\ ri = 1
    /\ result = [success |-> FALSE, cleaned_html |-> <<>>]
    /\ endpoints = <<>>
    /\ ei = 1
    /\ all_endpoints = <<>>
    /\ seen_endpoint_ids = {}
    /\ requested = <<>>
    /\ batches = <<>>
    /\ debug_files = {}
    /\ csv_writes = <<>>
    /\ json_writes = <<>>
    /\ printed = ""
    /\ failed = <<>>

Init == CrawlInit /\ FnIdle

\* result = await crawler.arun(url=resource_url, ...)
Fetch ==
    /\ pc = "fetch"
    /\ \/ \E page \in CrawlPages : result' = [success |-> TRUE, cleaned_html |-> page]
       \/ result' = [success |-> FALSE, cleaned_html |-> <<>>]
    /\ requested' = Append(requested, ResourceUrl(Links[ri]))
    /\ pc' = "fetched"
    /\ UNCHANGED <<ri, endpoints, ei, all_endpoints, seen_endpoint_ids, batches,
                   debug_files, csv_writes, json_writes, printed, failed>>
    /\ UNCHANGED fnVars

\* Faulty variant of FetchFailed: the failure ends the loop (break for continue)
FetchFailed_Breaks ==
    /\ pc = "fetched"
    /\ ~result.success
    /\ failed' = Append(failed, ResourceName(Links[ri]))
    /\ ri' = ri + 1
    /\ pc' = "save"
    /\ UNCHANGED <<result, endpoints, ei, all_endpoints, seen_endpoint_ids, requested,
                   batches, debug_files, csv_writes, json_writes, printed>>
    /\ UNCHANGED fnVars

\* if not result.success: ... continue
FetchFailed ==
    /\ pc = "fetched"
    /\ ~result.success
    /\ failed' = Append(failed, ResourceName(Links[ri]))
    /\ ri' = ri + 1
    /\ pc' = AfterResource(ri)
    /\ UNCHANGED <<result, endpoints, ei, all_endpoints, seen_endpoint_ids, requested,
                   batches, debug_files, csv_writes, json_writes, printed>>
    /\ UNCHANGED fnVars

\* the debug dump and endpoints = parse_canvas_api_page(result.cleaned_html, resource_name)
Parse ==
    /\ pc = "fetched"
    /\ result.success
    /\ debug_files' = debug_files \cup DebugFiles(ResourceName(Links[ri]))
    /\ endpoints' = parse_canvas_api_page(result.cleaned_html, ResourceName(Links[ri]))
    /\ batches' = batches \o endpoints'
    /\ ei' = 1
    /\ pc' = "aggregate"
    /\ UNCHANGED <<ri, result, all_endpoints, seen_endpoint_ids, requested,
                   csv_writes, json_writes, printed, failed>>
    /\ UNCHANGED fnVars

\* one iteration of `for endpoint in endpoints`
Aggregate ==
    /\ pc = "aggregate"
    /\ ei <= Len(endpoints)
    /\ LET acc == AggregateOne([all |-> all_endpoints, seen |-> seen_endpoint_ids],
                               endpoints[ei])
       IN  /\ all_endpoints' = acc.all
           /\ seen_endpoint_ids' = acc.seen
    /\ ei' = ei + 1
    /\ UNCHANGED <<pc, ri, result, endpoints, requested, batches, debug_files,
                   csv_writes, json_writes, printed, failed>>
    /\ UNCHANGED fnVars

\* the end of the loop body: the print, the pause, and the next resource
EndResource ==
    /\ pc = "aggregate"
    /\ ei > Len(endpoints)
    /\ ri' = ri + 1
    /\ pc' = AfterResource(ri)
    /\ UNCHANGED <<result, endpoints, ei, all_endpoints, seen_endpoint_ids, requested,
                   batches, debug_files, csv_writes, json_writes, printed, failed>>
    /\ UNCHANGED fnVars

\* what save_endpoints_to_csv adds to the writes of the csv file (data_utils.py:15-48)
CsvWrite(writes, eps) ==
    IF eps = <<>> THEN writes ELSE Append(writes, save_endpoints_to_csv(eps))

\* if all_endpoints: save_endpoints_to_csv(...); json.dump(...)
Save ==
    /\ pc = "save"
    /\ Truthy(all_endpoints)
    /\ csv_writes' = CsvWrite(csv_writes, all_endpoints)
    /\ json_writes' = Append(json_writes, all_endpoints)
    /\ printed' = "Saved detailed endpoint data"
    /\ pc' = "done"
    /\ UNCHANGED <<ri, result, endpoints, ei, all_endpoints, seen_endpoint_ids,
                   requested, batches, debug_files, failed>>
    /\ UNCHANGED fnVars

\* else: print("No API endpoints found.")
NoEndpoints ==
    /\ pc = "save"
    /\ ~Truthy(all_endpoints)
    /\ printed' = "No API endpoints found."
    /\ pc' = "done"
    /\ UNCHANGED <<ri, result, endpoints, ei, all_endpoints, seen_endpoint_ids,
                   requested, batches, debug_files, csv_writes, json_writes, failed>>
    /\ UNCHANGED fnVars

Next ==
    \/ Fetch
    \/ FetchFailed
    \/ Parse
    \/ Aggregate
    \/ EndResource
    \/ Save
    \/ NoEndpoints

Spec == Init /\ [][Next]_vars

\* a step of the crawl, told by what it does to pc and ei: under Spec every step
\* of Next from a state before "done" is one, it changes pc or ei, and one can
\* be taken in every state before "done"
RunStep ==
    /\ pc # "done"
    /\ pc' \in {"fetch", "fetched", "aggregate", "save", "done"}
    /\ ei' \in {1, ei, ei + 1}

\* the crawl as asyncio runs it: one coroutine, each step of which returns, so
\* the run goes on until it is done
FairSpec == Spec /\ WF_<<pc, ei>>(RunStep)
-----------------------------------------------------------------------------
(* The extractors and the tabular writer applied to one input.             *)

\* longest page of the exhaustive pages
MaxPageLen == 3

\* longest list of following siblings of the exhaustive headings
MaxSiblings == 2

\* longest paragraph served, in characters
MaxDescLen == 600

\* most text nodes put between a heading and its paragraph
MaxLeadingNodes == 11

UsersName == ResourceName(RESOURCE_LINKS[1])

\* the elements the exhaustive pages are made of
CanvasElems ==
    {NamedH2, H2(<<>>), H2Other(<<ListUsers>>), GetUsers, PatchUsers, FetchFoo,
     P(ListsUsers), P(<<>>), ParamTable, H4(ExampleRequest),
     Pre(<<"c","u","r","l">>)}

\* the first words, separators and paths the heading texts are made of
HeadingWords ==
    {GET, POST, PUT, DELETE, PATCH, <<"F","E","T","C","H">>,
     <<"F","O","R","G","E","T">>, <<"g","e","t">>}

HeadingSeparators == {<<>>, <<" ">>, <<" ", "\t">>, <<"\n">>}

HeadingPaths ==
    {UsersPath, FooPath, <<"/">>, <<"u","s","e","r","s">>, <<"/","a","/">>,
     <<"/","a"," ","b">>}

HeadingTexts ==
    {w \o s \o p : w \in HeadingWords, s \in HeadingSeparators, p \in HeadingPaths}

CanvasPages ==
    SeqsUpTo(CanvasElems, MaxPageLen)
        \cup CrawlPages
        \cup {<<NamedH2, H3(t), P(ListsUsers)>> : t \in HeadingTexts}
        \cup {<<NamedH2, GetUsers, P(Repeat("x", n))>> : n \in 0..MaxDescLen}

Heading(cls, content, text, title, before, siblings) ==
    [cls |-> cls, content |-> content, text |-> text, title |-> title,
     before |-> before, siblings |-> siblings]

Node(name, text) == [name |-> name, text |-> text]

ShortText == <<"S","h","o","r","t">>

TitleText == <<"T","h","e"," ","t","i","t","l","e">>

SiblingKinds ==
    {Node("p", ListsUsers), Node("p", ShortText), Node("", <<"\n">>),
     Node("span", ListsUsers), Node("div", <<" ">> \o ListsUsers \o <<"\n">>)}

\* pages of one heading of class api_method_name
OneHeadingPages ==
    {<<Heading(TRUE, TRUE, t, <<>>, <<>>, <<>>)>> : t \in HeadingTexts}
        \cup {<<Heading(TRUE, TRUE, t, title, before, sibs)>> :
                 t \in {GET \o <<" ">> \o UsersPath, GET \o <<" ">> \o <<"/">>},
                 title \in {<<>>, TitleText},
                 before \in {<<>>, ShortText},
                 sibs \in SeqsUpTo(SiblingKinds, MaxSiblings)}
        \cup {<<Heading(TRUE, TRUE, GET \o <<" ">> \o UsersPath, <<>>, <<>>,
                        <<Node("p", Repeat("x", n))>>)>> : n \in 0..MaxDescLen}
        \cup {<<Heading(TRUE, TRUE, GET \o <<" ">> \o UsersPath, <<>>, <<>>,
                        [k \in 1..(n + 1) |->
                            IF k <= n THEN Node("", <<"\n">>) ELSE Node("p", ListsUsers)])>> :
                 n \in 0..MaxLeadingNodes}

\* pages of up to two headings, with and without the class, in and out of div#content
SelectorPages ==
    SeqsUpTo({Heading(cls, content, t, <<>>, <<>>, <<Node("p", ListsUsers)>>) :
                 cls \in BOOLEAN, content \in BOOLEAN,
                 t \in {GET \o <<" ">> \o UsersPath, ListUsers}}, 2)

MethodPages == OneHeadingPages \cup SelectorPages

ExtractInputs ==
    {[kind |-> "canvas", success |-> TRUE, html |-> page, resource_name |-> UsersName] :
        page \in CanvasPages}
    \cup {[kind |-> "method", success |-> TRUE, html |-> page, resource_name |-> UsersName] :
             page \in MethodPages}
    \cup {[kind |-> "method", success |-> FALSE, html |-> <<>>, resource_name |-> UsersName]}

InitExtract ==
    /\ CrawlInit
    /\ fn_in \in ExtractInputs
    /\ fn_pc = "start"
    /\ fn_out = [endpoints |-> <<>>, csv |-> <<>>, scope |-> <<>>]

\* parse_canvas_api_page on the input page
FnParseCanvas ==
    /\ fn_pc = "start"
    /\ fn_in.kind = "canvas"
    /\ fn_out' = [fn_out EXCEPT
                     !.endpoints = parse_canvas_api_page(fn_in.html, fn_in.resource_name)]
    /\ fn_pc' = "extracted"
    /\ UNCHANGED fn_in
    /\ UNCHANGED crawlVars

\* extract_api_endpoints on the input page
FnExtractApi ==
    /\ fn_pc = "start"
    /\ fn_in.kind = "method"
    /\ fn_out' = [fn_out EXCEPT
                     !.endpoints =
                         extract_api_endpoints(
                             [success |-> fn_in.success, cleaned_html |-> fn_in.html],
                             fn_in.resource_name)]
    /\ fn_pc' = "extracted"
    /\ UNCHANGED fn_in
    /\ UNCHANGED crawlVars

\* save_endpoints_to_csv on the records extracted
FnSaveCsv ==
    /\ fn_pc = "extracted"
    /\ fn_out' = [fn_out EXCEPT !.csv = CsvWrite(<<>>, fn_out.endpoints)]
    /\ fn_pc' = "saved"
    /\ UNCHANGED fn_in
    /\ UNCHANGED crawlVars

NextExtract ==
    \/ FnParseCanvas
    \/ FnExtractApi
    \/ FnSaveCsv

SpecExtract == InitExtract /\ [][NextExtract]_vars

-----------------------------------------------------------------------------
(* extract_scope applied to one description.                               *)

\* most pieces a description is made of
MaxPieces == 5

ScopePieces ==
    {ScopeMarker, CodeOpen, CodeClose, <<".">>, <<"\n">>, <<" ">>, <<"a">>}

\* "Scope: <code>url:GET|/api/v1/users</code> more text."
ScopeCodeExample ==
    ScopeMarker \o <<" ">> \o CodeOpen
        \o <<"u","r","l",":","G","E","T","|">> \o UsersPath \o CodeClose
        \o <<" ","m","o","r","e"," ","t","e","x","t",".">>

\* "Scope: allows read access. Other info."
ScopeTextExample ==
    ScopeMarker
        \o <<" ","a","l","l","o","w","s"," ","r","e","a","d"," ","a","c","c","e","s","s",".">>
        \o <<" ","O","t","h","e","r"," ","i","n","f","o",".">>

\* "Scope: read access\nMore text.": the line of the scope ends without a period
ScopeLineExample ==
    ScopeMarker
        \o <<" ","r","e","a","d"," ","a","c","c","e","s","s","\n">>
        \o <<"M","o","r","e"," ","t","e","x","t",".">>

Descriptions ==
    {Concat(ps) : ps \in SeqsUpTo(ScopePieces, MaxPieces)}
        \cup {ScopeCodeExample, ScopeTextExample, ScopeLineExample}

InitScope ==
    /\ CrawlInit
    /\ fn_in \in {[kind |-> "scope", success |-> TRUE, html |-> d, resource_name |-> UsersName] :
                     d \in Descriptions}
    /\ fn_pc = "start"
    /\ fn_out = [endpoints |-> <<>>, csv |-> <<>>, scope |-> <<>>]

\* extract_scope on a record with the input description
FnExtractScope ==
    /\ fn_pc = "start"
    /\ fn_in.kind = "scope"
    /\ fn_out' = [fn_out EXCEPT !.scope = extract_scope([description |-> fn_in.html])]
    /\ fn_pc' = "scoped"
    /\ UNCHANGED fn_in
    /\ UNCHANGED crawlVars

NextScope == FnExtractScope

SpecScope == InitScope /\ [][NextScope]_vars

-----------------------------------------------------------------------------
(* Properties of the crawl.                                                *)

\* the identity of a record
Triple(endpoint) == <<endpoint["resource"], endpoint["http_method"], endpoint["path"]>>

\* C1 - Identity uniqueness: no two records of all_endpoints share the same
\* (resource, http_method, path) triple, in any state of the crawl.
C1_IdentityUniqueness ==
    \A i, j \in DOMAIN all_endpoints :
        i # j => Triple(all_endpoints[i]) # Triple(all_endpoints[j])

\* a batch held the same triple twice, the first was accepted and the second fed
C1_Witness ==
    /\ pc = "aggregate"
    /\ \E i, j \in 1..(ei - 1) :
          /\ i < j
          /\ Triple(endpoints[i]) = Triple(endpoints[j])
          /\ HasRequiredKeys(endpoints[i])
          /\ HasRequiredKeys(endpoints[j])
          /\ endpoints[i] \in Range(all_endpoints)

\* C2 - Required-field gate: every record of all_endpoints has resource, name,
\* http_method, path and description present and non-empty; a candidate with an
\* empty description is never in all_endpoints.
C2_RequiredFieldGate ==
    \A i \in DOMAIN all_endpoints :
        /\ \A key \in {"resource", "name", "http_method", "path", "description"} :
              key \in DOMAIN all_endpoints[i] /\ all_endpoints[i][key] # <<>>
        /\ all_endpoints[i]["description"] # <<>>

\* the extractor returned a candidate with an empty description, the loop has
\* gone over it, and records of the same batch were accepted
C2_Witness ==
    /\ pc = "aggregate"
    /\ \E i \in 1..(ei - 1) : endpoints[i]["description"] = <<>>
    /\ \E i \in 1..(ei - 1) : endpoints[i] \in Range(all_endpoints)

\* C3 - Idempotent dedup: feeding the candidates already fed once more, in the
\* same order, leaves all_endpoints and seen_endpoint_ids as they are.
C3_IdempotentDedup ==
    pc = "aggregate" =>
        AggregateBatch([all |-> all_endpoints, seen |-> seen_endpoint_ids],
                       SubSeq(endpoints, 1, ei - 1))
            = [all |-> all_endpoints, seen |-> seen_endpoint_ids]

\* a whole batch was fed, one candidate of it accepted and another rejected
C3_Witness ==
    /\ pc = "aggregate"
    /\ ei > Len(endpoints)
    /\ \E i \in DOMAIN endpoints : endpoints[i] \in Range(all_endpoints)
    /\ \E i \in DOMAIN endpoints : endpoints[i] \notin Range(all_endpoints)
    /\ ri > 1 /\ Len(all_endpoints) >= 2

\* the records and keys of the resources in a set of resource names
RecordsOf(names) == {i \in DOMAIN all_endpoints : all_endpoints[i]["resource"] \in names}

\* C5 - Fetch-failure isolation: the step taken on a failed fetch changes
\* neither all_endpoints nor seen_endpoint_ids and goes on to the next resource;
\* a failed resource never has a record or a key; and the run ends only after
\* every configured resource has been requested, in order.
C5_FetchFailureIsolation ==
    /\ [][(pc = "fetched" /\ ~result.success) =>
            /\ all_endpoints' = all_endpoints
            /\ seen_endpoint_ids' = seen_endpoint_ids
            /\ ri' = ri + 1
            /\ pc' = (IF ri < Len(Links) THEN "fetch" ELSE "save")]_vars
    /\ [](RecordsOf(Range(failed)) = {})
    /\ [](\A id \in seen_endpoint_ids :
             \A f \in Range(failed) : ~StartsAt(id, f \o <<"_">>, 1))
    /\ [](pc \in {"save", "done"} =>
             requested = [i \in 1..Len(Links) |-> ResourceUrl(Links[i])])

\* the first fetch failed, and a later resource was fetched and gave records
C5_Witness ==
    /\ pc = "done"
    /\ Len(failed) >= 1
    /\ failed[1] = ResourceName(Links[1])
    /\ all_endpoints # <<>>
    /\ Len(requested) = Len(Links)

\* the record of the end-to-end scenario for a resource
ScenarioRecord(resource_name) ==
    [resource |-> resource_name,
     name |-> ListUsers,
     http_method |-> GET,
     path |-> UsersPath,
     description |-> ListsUsers,
     parameters |->
         << [name |-> <<"i","d">>, type |-> <<"i","n","t">>,
             description |-> <<"T","h","e"," ","i","d">>],
            [name |-> <<"q">>, type |-> <<"s","t","r">>,
             description |-> <<"A"," ","q","u","e","r","y">>] >>,
     example_request |-> <<>>,
     example_response |-> <<>>]

\* C7 - End-to-end scenario: the page with the one heading GET /api/v1/users, the
\* paragraph "Lists users." and a table of a header row and two rows of three
\* cells gives exactly one record (GET, /api/v1/users, "Lists users.", two
\* parameters); the loop accepts it; its row of the tabular output has
\* parameter_count = 2.
C7_EndToEndScenario ==
    /\ (pc = "aggregate" /\ result.cleaned_html = ScenarioPage) =>
          /\ endpoints = <<ScenarioRecord(ResourceName(Links[ri]))>>
          /\ Len(endpoints[1]["parameters"]) = 2
          /\ ei > 1 => all_endpoints[Len(all_endpoints)] = endpoints[1]
    /\ pc = "done" =>
          \A i \in DOMAIN all_endpoints :
              all_endpoints[i] = ScenarioRecord(all_endpoints[i]["resource"]) =>
                  /\ Len(csv_writes) = 1
                  /\ csv_writes[1][i]["parameter_count"] = 2
                  /\ csv_writes[1][i]["http_method"] = GET
                  /\ csv_writes[1][i]["path"] = UsersPath
                  /\ csv_writes[1][i]["description"] = ListsUsers

\* the scenario page was the only page served, and its row was written
C7_Witness ==
    /\ pc = "done"
    /\ Len(failed) = Len(Links) - 1
    /\ Len(all_endpoints) = 1
    /\ all_endpoints[1] = ScenarioRecord(all_endpoints[1]["resource"])
    /\ Len(csv_writes) = 1
    /\ csv_writes[1][1]["parameter_count"] = 2

\* a is b with some elements left out
RECURSIVE IsSubsequence(_, _)
IsSubsequence(a, b) ==
    IF a = <<>> THEN TRUE
    ELSE IF b = <<>> THEN FALSE
    ELSE IF Head(a) = Head(b) THEN IsSubsequence(Tail(a), Tail(b))
    ELSE IsSubsequence(a, Tail(b))

\* C10 - Order preservation: all_endpoints is a subsequence of the batches
\* concatenated in resource order, and a step only ever appends to it: an
\* accepted record is never moved or removed.
C10_OrderPreservation ==
    /\ [](IsSubsequence(all_endpoints, batches))
    /\ [][/\ Len(all_endpoints') >= Len(all_endpoints)
          /\ SubSeq(all_endpoints', 1, Len(all_endpoints)) = all_endpoints]_vars

\* records of two resources were accepted and some candidates were left out
C10_Witness ==
    /\ pc = "done"
    /\ Len(all_endpoints) >= 3
    /\ Len(batches) > Len(all_endpoints)
    /\ \E i, j \in DOMAIN all_endpoints :
          i < j /\ all_endpoints[i]["resource"] # all_endpoints[j]["resource"]

\* C11 - Persist once at the end: the csv and the json are written at most once
\* per run, only in the step that ends the run and only after every configured
\* resource was requested; the run ends; at its end, if all_endpoints is
\* non-empty both were written from the same, complete all_endpoints, and if it
\* is empty nothing was written and "No API endpoints found." was printed.
C11_PersistOnceAtEnd ==
    /\ [](Len(csv_writes) <= 1 /\ Len(json_writes) <= 1)
    /\ []((csv_writes # <<>> \/ json_writes # <<>>) =>
            /\ pc = "done"
            /\ ri > Len(Links)
            /\ Len(requested) = Len(Links))
    /\ [](pc = "done" =>
            IF all_endpoints # <<>>
            THEN /\ json_writes = <<all_endpoints>>
                 /\ csv_writes = <<save_endpoints_to_csv(all_endpoints)>>
                 /\ all_endpoints = AggregateBatch([all |-> <<>>, seen |-> {}], batches).all
            ELSE /\ json_writes = <<>>
                 /\ csv_writes = <<>>
                 /\ printed = "No API endpoints found.")
    /\ [][(csv_writes' # csv_writes \/ json_writes' # json_writes) =>
            /\ pc = "save" /\ pc' = "done"
            /\ UNCHANGED <<all_endpoints, seen_endpoint_ids>>]_vars
    /\ <>[](pc = "done")

\* a run over failed and fetched resources ended with both files written once
C11_Witness ==
    /\ pc = "done"
    /\ Len(failed) >= 1
    /\ Len(all_endpoints) >= 2
    /\ Len(json_writes) = 1
    /\ Len(csv_writes) = 1
    /\ Len(csv_writes[1]) = Len(json_writes[1])

\* C12 - Seen-set consistency: in every state seen_endpoint_ids is exactly the
\* set of the keys of the records of all_endpoints; an iteration of the loop
\* over a candidate that fails the required-key test changes neither, and an
\* iteration over a candidate that passes it and whose triple no record of
\* all_endpoints has appends the candidate and adds its key.
C12_SeenSetConsistency ==
    /\ [](seen_endpoint_ids = {endpoint_id(all_endpoints[i]) : i \in DOMAIN all_endpoints})
    /\ [][(pc = "aggregate" /\ ei' = ei + 1) =>
            /\ ~HasRequiredKeys(endpoints[ei]) =>
                  UNCHANGED <<all_endpoints, seen_endpoint_ids>>
            /\ (/\ HasRequiredKeys(endpoints[ei])
                /\ \A i \in DOMAIN all_endpoints :
                      Triple(all_endpoints[i]) # Triple(endpoints[ei])) =>
                  /\ all_endpoints' = Append(all_endpoints, endpoints[ei])
                  /\ seen_endpoint_ids' =
                        seen_endpoint_ids \cup {endpoint_id(endpoints[ei])}]_vars

\* a candidate was rejected for its empty description and a later candidate of
\* the same triple, with all the required keys, was accepted
C12_Witness ==
    /\ pc = "aggregate"
    /\ \E j, k \in 1..(ei - 1) :
          /\ j < k
          /\ ~HasRequiredKeys(endpoints[j])
          /\ Triple(endpoints[j]) = Triple(endpoints[k])
          /\ HasRequiredKeys(endpoints[k])
          /\ endpoints[k] \in Range(all_endpoints)
          /\ endpoint_id(endpoints[k]) \in seen_endpoint_ids

-----------------------------------------------------------------------------
(* Properties of the extractors and of the tabular writer.                 *)

FiveVerbs == {GET, POST, PUT, DELETE, PATCH}

\* the first word of a heading text
FirstWord(t) ==
    LET s == Strip(t)
        sp == {i \in 1..Len(s) : IsSpace(s[i])}
    IN  IF sp = {} THEN s
        ELSE SubSeq(s, 1, (CHOOSE i \in sp : \A j \in sp : i <= j) - 1)

\* what follows the first word and the whitespace after it
AfterFirstWord(t) ==
    LET s == Strip(t)
    IN  SubSeq(s, SkipSpaces(s, Len(FirstWord(t)) + 1), Len(s))

\* t reads: one of the five verbs, whitespace, and a path that starts with "/"
IsVerbPathHeading(t) ==
    /\ FirstWord(t) \in FiveVerbs
    /\ Len(AfterFirstWord(t)) >= 2
    /\ AfterFirstWord(t)[1] = "/"
    /\ \A i \in DOMAIN AfterFirstWord(t) : ~IsSpace(AfterFirstWord(t)[i])

\* the headings extract_api_endpoints hands to parse_api_method
HandedHeadings == IF fn_in.success THEN ApiMethods(fn_in.html) ELSE <<>>

\* the texts of the headings of the input page an extractor is handed:
\* the h3 after every selected and named h2, or the headings of class api_method_name
InputHeadings ==
    IF fn_in.kind = "canvas"
    THEN {fn_in.html[FindNext(fn_in.html, i, "h3")].text :
             i \in {k \in DOMAIN fn_in.html :
                       /\ fn_in.html[k].tag = "h2" /\ fn_in.html[k].sel
                       /\ fn_in.html[k].anchors # <<>>
                       /\ Strip(fn_in.html[k].anchors[1]) # <<>>
                       /\ FindNext(fn_in.html, k, "h3") # 0}}
    ELSE {m.text : m \in Range(HandedHeadings)}

Extracted == fn_pc \in {"extracted", "saved"}

\* C4 - Method enumeration: the http_method of every record is one of GET, POST,
\* PUT, DELETE, PATCH; every heading that reads one of these verbs, whitespace
\* and a path starting with "/" yields a candidate with that verb and path; and
\* a page whose headings all start with another word yields no candidate.
C4_MethodEnumeration ==
    (Extracted /\ fn_in.kind \in {"canvas", "method"}) =>
        /\ \A k \in DOMAIN fn_out.endpoints :
              fn_out.endpoints[k]["http_method"] \in FiveVerbs
        /\ \A t \in InputHeadings :
              IsVerbPathHeading(t) =>
                  \E k \in DOMAIN fn_out.endpoints :
                      /\ fn_out.endpoints[k]["http_method"] = FirstWord(t)
                      /\ fn_out.endpoints[k]["path"] = AfterFirstWord(t)
        /\ (\A t \in InputHeadings : FirstWord(t) \notin FiveVerbs) =>
              fn_out.endpoints = <<>>

\* the headings of the input page from which the extractor gets a method and a
\* path: positions in the page, or in the headings handed to parse_api_method
MatchedHeadings ==
    IF fn_in.kind = "canvas"
    THEN {k \in DOMAIN fn_in.html :
             /\ fn_in.html[k].tag = "h2" /\ fn_in.html[k].sel
             /\ FindNext(fn_in.html, k, "h3") # 0
             /\ MatchCanvas(GetText(fn_in.html[FindNext(fn_in.html, k, "h3")].text))
                    # NoMatch}
    ELSE {k \in DOMAIN HandedHeadings :
             MethodMatch(GetText(HandedHeadings[k].text)) # NoMatch}

\* the headings among them that carry anchor text
NamedMatchedHeadings ==
    {k \in MatchedHeadings :
        fn_in.html[k].anchors # <<>> /\ Strip(fn_in.html[k].anchors[1]) # <<>>}

\* C6 as stated - a missing optional field never causes discard: every heading
\* from which a method and a path are extracted gives a record, with a non-empty
\* name and description, that the required-field gate lets through.
C6_NoDiscard ==
    (Extracted /\ fn_in.kind \in {"canvas", "method"}) =>
        /\ Len(fn_out.endpoints) = Cardinality(MatchedHeadings)
        /\ \A k \in DOMAIN fn_out.endpoints :
              /\ fn_out.endpoints[k]["name"] # <<>>
              /\ fn_out.endpoints[k]["description"] # <<>>
              /\ HasRequiredKeys(fn_out.endpoints[k])

\* C6 as amended - parse_api_method gives, for every heading from which it
\* extracts a method and a path, a record with a non-empty name and description
\* that passes the required-field gate.  extract_endpoint_from_section gives a
\* record for every such heading that carries anchor text, whether or not a
\* paragraph, a table or an example follows; the name is then non-empty, and
\* the record passes the gate exactly when its description is non-empty.
C6_NoDiscardAmended ==
    /\ (Extracted /\ fn_in.kind = "method") =>
          /\ Len(fn_out.endpoints) = Cardinality(MatchedHeadings)
          /\ \A k \in DOMAIN fn_out.endpoints :
                /\ fn_out.endpoints[k]["name"] # <<>>
                /\ fn_out.endpoints[k]["description"] # <<>>
                /\ HasRequiredKeys(fn_out.endpoints[k])
    /\ (Extracted /\ fn_in.kind = "canvas") =>
          /\ Len(fn_out.endpoints) = Cardinality(NamedMatchedHeadings)
          /\ \A k \in DOMAIN fn_out.endpoints :
                /\ fn_out.endpoints[k]["name"] # <<>>
                /\ HasRequiredKeys(fn_out.endpoints[k])
                       <=> fn_out.endpoints[k]["description"] # <<>>

\* a heading with no sibling, no title and no other text in its parent gave a
\* record with the generic description
C6_Witness ==
    /\ fn_pc = "extracted"
    /\ fn_in.kind = "method"
    /\ Len(fn_in.html) = 1
    /\ fn_in.html[1].siblings = <<>>
    /\ fn_in.html[1].title = <<>>
    /\ fn_in.html[1].before = <<>>
    /\ Len(fn_out.endpoints) = 1
    /\ fn_out.endpoints[1]["description"] = GenericPrefix \o fn_out.endpoints[1]["path"]
    /\ HasRequiredKeys(fn_out.endpoints[1])

\* the pages of one heading GET /api/v1/users followed by one paragraph of x's
IsLongParagraphInput ==
    /\ fn_in.kind = "method"
    /\ Len(fn_in.html) = 1
    /\ fn_in.html[1].title = <<>>
    /\ fn_in.html[1].before = <<>>
    /\ Len(fn_in.html[1].siblings) = 1
    /\ fn_in.html[1].siblings[1].name = "p"
    /\ Len(fn_in.html[1].siblings[1].text) > 10
    /\ Range(fn_in.html[1].siblings[1].text) = {"x"}

\* the canvas pages of one section whose paragraph is a run of x's
IsLongCanvasInput ==
    /\ fn_in.kind = "canvas"
    /\ Len(fn_in.html) = 3
    /\ fn_in.html[1] = NamedH2
    /\ fn_in.html[2] = GetUsers
    /\ fn_in.html[3].tag = "p"
    /\ fn_in.html[3].text # <<>>
    /\ Range(fn_in.html[3].text) = {"x"}

\* the first n characters of d and "..." when d is longer than n, else d
Capped(d, n) == IF Len(d) > n THEN SubSeq(d, 1, n) \o <<".", ".", ".">> ELSE d

\* what the tabular writer is to write for the records extracted
CsvDescriptionsCapped ==
    (fn_pc = "saved" /\ fn_out.endpoints # <<>>) =>
        /\ Len(fn_out.csv) = 1
        /\ Len(fn_out.csv[1]) = Len(fn_out.endpoints)
        /\ \A k \in DOMAIN fn_out.endpoints :
              /\ fn_out.csv[1][k]["description"] =
                     Capped(fn_out.endpoints[k]["description"], 200)
              /\ Len(fn_out.csv[1][k]["description"]) <= 203

\* C8 as stated - Description truncation: the extractor turns a description of
\* more than 500 characters into its first 500 characters and "..." (600
\* characters become 503); the tabular writer turns a description of more than
\* 200 characters into its first 200 characters and "..."; and a description of
\* the tabular output never has more than 203 characters.
C8_DescriptionTruncation ==
    /\ (Extracted /\ IsLongParagraphInput) =>
          /\ Len(fn_out.endpoints) = 1
          /\ fn_out.endpoints[1]["description"] =
                 Capped(fn_in.html[1].siblings[1].text, 500)
    /\ (Extracted /\ IsLongCanvasInput) =>
          /\ Len(fn_out.endpoints) = 1
          /\ fn_out.endpoints[1]["description"] = Capped(fn_in.html[3].text, 500)
    /\ CsvDescriptionsCapped

\* C8 as amended - parse_api_method turns a description of more than 500
\* characters into its first 500 characters and "..." (600 characters become
\* 503) and leaves a shorter one as it is; extract_endpoint_from_section, the
\* extractor of crawl_canvas_api, keeps the paragraph text at any length; the
\* tabular writer turns a description of more than 200 characters into its
\* first 200 characters and "..."; and a description of the tabular output
\* never has more than 203 characters, whichever extractor the record came from.
C8_DescriptionTruncationAmended ==
    /\ (Extracted /\ IsLongParagraphInput) =>
          /\ Len(fn_out.endpoints) = 1
          /\ fn_out.endpoints[1]["description"] =
                 Capped(fn_in.html[1].siblings[1].text, 500)
          /\ Len(fn_in.html[1].siblings[1].text) = 600 =>
                 Len(fn_out.endpoints[1]["description"]) = 503
    /\ (Extracted /\ IsLongCanvasInput) =>
          /\ Len(fn_out.endpoints) = 1
          /\ fn_out.endpoints[1]["description"] = fn_in.html[3].text
    /\ CsvDescriptionsCapped

\* a paragraph of 600 characters went through parse_api_method and the writer
C8_Witness ==
    /\ fn_pc = "saved"
    /\ IsLongParagraphInput
    /\ Len(fn_in.html[1].siblings[1].text) = 600
    /\ Len(fn_out.endpoints[1]["description"]) = 503
    /\ Len(fn_out.csv[1][1]["description"]) = 203

\* the text after the first marker of d, up to the next marker if there is one
AfterMarker(d) ==
    LET rest == Suffix(d, Find(d, ScopeMarker) + Len(ScopeMarker))
    IN  IF Contains(rest, ScopeMarker) THEN Prefix(rest, Find(rest, ScopeMarker)) ELSE rest

\* s holds a <code>...</code> token on one line
HasCodeToken(s) ==
    \E i, j \in 1..Len(s) :
        /\ StartsAt(s, CodeOpen, i)
        /\ StartsAt(s, CodeClose, j)
        /\ j >= i + Len(CodeOpen)
        /\ \A k \in i..j : s[k] # "\n"

\* the content of the first such token
CodeTokenContent(s) ==
    LET i == CHOOSE a \in 1..Len(s) :
                 /\ \E j \in 1..Len(s) :
                       /\ StartsAt(s, CodeOpen, a) /\ StartsAt(s, CodeClose, j)
                       /\ j >= a + Len(CodeOpen)
                       /\ \A k \in a..j : s[k] # "\n"
                 /\ \A b \in 1..(a - 1) :
                       ~\E j \in 1..Len(s) :
                           /\ StartsAt(s, CodeOpen, b) /\ StartsAt(s, CodeClose, j)
                           /\ j >= b + Len(CodeOpen)
                           /\ \A k \in b..j : s[k] # "\n"
        j == CHOOSE c \in (i + Len(CodeOpen))..Len(s) :
                 /\ StartsAt(s, CodeClose, c)
                 /\ \A e \in (i + Len(CodeOpen))..(c - 1) : ~StartsAt(s, CodeClose, e)
    IN  SubSeq(s, i + Len(CodeOpen), j - 1)

\* s up to its first period or newline, whichever comes first
UpToPeriodOrNewline(s) ==
    LET stops == {i \in 1..Len(s) : s[i] \in {".", "\n"}}
    IN  IF stops = {} THEN s
        ELSE SubSeq(s, 1, (CHOOSE i \in stops : \A j \in stops : i <= j) - 1)

\* C9 - Scope extraction: extract_scope gives the empty text when "Scope:" is
\* absent; the content of the <code>...</code> token when the text after the
\* marker holds one; and otherwise the text after the marker up to the next
\* period or newline, trimmed.
C9_ScopeExtraction ==
    fn_pc = "scoped" =>
        LET d == fn_in.html
        IN  /\ ~Contains(d, ScopeMarker) => fn_out.scope = <<>>
            /\ (Contains(d, ScopeMarker) /\ HasCodeToken(AfterMarker(d))) =>
                  fn_out.scope = CodeTokenContent(AfterMarker(d))
            /\ (Contains(d, ScopeMarker) /\ ~HasCodeToken(AfterMarker(d))) =>
                  fn_out.scope = Strip(UpToPeriodOrNewline(AfterMarker(d)))
            /\ d = ScopeCodeExample =>
                  fn_out.scope = <<"u","r","l",":","G","E","T","|">> \o UsersPath
            /\ d = ScopeTextExample =>
                  fn_out.scope =
                      <<"a","l","l","o","w","s"," ","r","e","a","d"," ","a","c","c","e","s","s">>

====
